---- MODULE Spec2Model ----
(***************************************************************************)
(* State-machine model of the invoice dashboard front end:                 *)
(*   - the Submit Invoice page and its InvoiceJourney                      *)
(*     (pages/SubmitInvoice.jsx): the live journey view fed by one         *)
(*     EventSource per invoice id;                                         *)
(*   - TaskRow: one row of the pending-task list with approve / reject;    *)
(*   - the Tasks page and the invoice detail page (pages/POs.jsx);         *)
(*   - the Invoices page (pages/Invoices.jsx);                             *)
(*   - what InvoiceJourney renders for a status and for a step.            *)
(* JavaScript runs one callback at a time, so every handler is one atomic  *)
(* action.  null and undefined are both written NULL.                      *)
(***************************************************************************)
EXTENDS Integers, Sequences, FiniteSets, TLC

NULL == "null"

\* EventSource.readyState
CONNECTING == "CONNECTING"
OPEN == "OPEN"
CLOSED == "CLOSED"

(***************************************************************************)
(* Bounds of the model.                                                    *)
(***************************************************************************)
MaxEvents == 4      \* stream callbacks handled by one mounted view
MaxConns == 2       \* EventSource objects created in one run
MaxInflight == 2    \* action requests one task may have in flight
MaxReplay == 6      \* stream callbacks of one view in the replay scenarios
MaxLoads == 2       \* getInvoices requests in flight on the Invoices page

\* Invoice ids: two ids a submission response may name, and 0 for none
\* (lastInvoiceId null, a response without id).
InvoiceIds == {1, 2}
InvoiceProp == {0} \cup InvoiceIds

(***************************************************************************)
(* Steps as they appear on the wire.  Only the fields the view reads are   *)
(* kept: type, to, status, result.status (rstatus) and agent.              *)
(***************************************************************************)
MkStep(type, to, st, rst, agent) ==
    [type |-> type, to |-> to, status |-> st, rstatus |-> rst, agent |-> agent]

sReceived == MkStep("status_change", "RECEIVED", NULL, NULL, NULL)
sValidated == MkStep("status_change", "VALIDATED", NULL, NULL, NULL)
sNoHint == MkStep("agent_result", NULL, NULL, NULL, "validator")
sMatched == MkStep("agent_result", NULL, NULL, "MATCHED", "matcher")
sPending == MkStep(NULL, NULL, "APPROVAL_PENDING", NULL, "approver")

StepPool == {sReceived, sNoHint, sMatched, sPending}

\* Hydration payloads (workflow.steps of an init event).
HydratePool == {<<>>, <<sReceived, sNoHint>>, <<sPending, sValidated>>}

\* ev.data of an init event: invalid JSON, JSON without workflow.steps, or
\* JSON carrying workflow.steps.
InitData ==
    {[valid |-> FALSE, hasSteps |-> FALSE, steps |-> <<>>],
     [valid |-> TRUE, hasSteps |-> FALSE, steps |-> <<>>]}
    \cup {[valid |-> TRUE, hasSteps |-> TRUE, steps |-> p] : p \in HydratePool}

\* ev.data of a step event: invalid JSON, JSON without a step field, or
\* JSON carrying a step.
StepData ==
    {[valid |-> FALSE, hasStep |-> FALSE, step |-> sNoHint],
     [valid |-> TRUE, hasStep |-> FALSE, step |-> sNoHint]}
    \cup {[valid |-> TRUE, hasStep |-> TRUE, step |-> s] : s \in StepPool}

VARIABLES
    lastInvoiceId,  \* Submit Invoice page: useState lastInvoiceId (0: null)
    loadingSubmit,  \* Submit Invoice page: useState loadingSubmit
    submitReq,      \* handleSubmitInvoice is suspended at its await fetch
    lastSubmit,     \* history: how far the most recent submission got, and
                    \* the invoice id its response named (0: none)
    prevShown,      \* history: the view destroyed last held steps
    jmounted,    \* InvoiceJourney is mounted
    invoiceId,   \* its invoiceId prop (0: null)
    steps,       \* useState steps
    status,      \* useState status
    connected,   \* useState connected
    esRef,       \* esRef.current: index into es, 0 for null
    es,          \* every EventSource created so far: [inv, readyState]
    hist,        \* history: what the mounted view has handled, oldest first
    lateCb       \* history: the closed EventSource whose queued callback the
                 \* last step discarded, or NoCb

\* the state of the InvoiceJourney instance
jcore == <<jmounted, invoiceId, steps, status, connected, esRef, es, hist>>

jview == <<jcore, lateCb>>

\* the state of the Submit Invoice page around it
jpage == <<lastInvoiceId, loadingSubmit, submitReq, lastSubmit>>

jvars == <<jpage, prevShown, jview>>

VARIABLES
    pending,        \* the pending-task list of the parent: the task ids shown
    task,           \* the task prop of each row: [status, invStatus]
    rowMounted,     \* the row's effect is set up (its EventSource exists)
    submitting,     \* useState submitting, per row
    invoiceStatus,  \* useState invoiceStatus, per row
    tes,            \* readyState of the row's EventSource
    reqs,           \* the action requests in flight, per task, oldest first;
                    \* lost: the network dropped it, the server never answers
    viaHttp,        \* history: handleAction called onTaskRemoved for the task
    viaSse,         \* history: es.onmessage called onTaskRemoved for the task
    nRemoved,       \* history: how often the task left the pending list
    lastResp,       \* history: the response handled by the last step, or NoResp
    lastIgnored     \* history: the last step handled a message that is not
                    \* for the row that received it

tvars == <<pending, task, rowMounted, submitting, invoiceStatus, tes, reqs,
           viaHttp, viaSse, nRemoved, lastResp, lastIgnored>>

VARIABLES
    pmounted,    \* the Tasks page is mounted
    ptasks,      \* useState tasks: the ids of the tasks listed
    ploading,    \* useState loading
    actioning,   \* useState actioning: a task id, 0 for null
    ploads,      \* load() calls of the mount effect awaiting getTasks
    pacts,       \* handleApprove / handleReject calls suspended at an await;
                 \* lost: the server never answers the action request
    palert,      \* history: the last alert shown, or NULL
    pconfirm     \* history: the answer to window.confirm in the last step

pvars == <<pmounted, ptasks, ploading, actioning, ploads, pacts, palert, pconfirm>>

VARIABLES
    dmounted,    \* the invoice detail page is mounted
    did,         \* useParams id
    dinvoice,    \* useState invoice: [id, status], NoDoc for null
    dloading,    \* useState loading
    dactioning,  \* useState actioning
    dmsg,        \* useState msg
    dloads,      \* load() calls awaiting getInvoice: [id, cancelled]
    dacts,       \* doApprove / doReject calls suspended at an await
    dlast,       \* history: the action response handled by the last step
    dconfirm     \* history: the answer to confirm in the last step

dvars == <<dmounted, did, dinvoice, dloading, dactioning, dmsg, dloads, dacts,
           dlast, dconfirm>>

VARIABLES
    imounted,    \* the Invoices page is mounted
    iq,          \* useState q: the text of the search box
    iinvoices,   \* useState invoices: the invoice ids listed
    iloading,    \* useState loading
    ireqs,       \* load() calls awaiting getInvoices, oldest first: [q, latest]
    ilatest      \* history: the response to the most recent load() call

ivars == <<imounted, iq, iinvoices, iloading, ireqs, ilatest>>

VARIABLES
    rinput,      \* what InvoiceJourney is given to render: a status for the
                 \* current-status line, or a step for renderStep
    rendered     \* what the render produced, NotRendered before it

rvars == <<rinput, rendered>>

vars == <<jvars, tvars, pvars, dvars, ivars, rvars>>

NoCb == 0

\* No submission yet.
NoSubmit == [outcome |-> NULL, id |-> 0]

\* The tasks of the pending-task list.
TaskIds == {1, 2}

NoResp == [task |-> 0, ok |-> FALSE, before |-> NULL, touched |-> FALSE]

\* invoice === null
NoDoc == [id |-> 0, status |-> NULL]

\* The most recent load() call has not been answered.
NoItems == [done |-> FALSE, items |-> {}]

\* Nothing to render, nothing rendered.
NoInput == [kind |-> NULL, status |-> NULL,
            step |-> MkStep(NULL, NULL, NULL, NULL, NULL)]

NotRendered == [done |-> FALSE, error |-> FALSE, text |-> NULL, marker |-> NULL]

\* One entry of hist.
Ev(kind, c, ok, payload) == [kind |-> kind, conn |-> c, ok |-> ok, payload |-> payload]

(***************************************************************************)
(* InvoiceJourney: the listeners as functions of the state they read.      *)
(***************************************************************************)

\* wf.steps || []
WfSteps(data) == IF data.hasSteps THEN data.steps ELSE <<>>

\* Mutant of InitSteps: the hydration payload is concatenated to the prior list.
InitStepsConcat(prev, data) == prev \o WfSteps(data)

\* init listener: setSteps(wf.steps || [])
InitSteps(prev, data) == WfSteps(data)

\* init listener: last?.status ?? last?.to ?? null
InitStatus(data) ==
    LET s == WfSteps(data)
    IN  IF Len(s) = 0 THEN NULL
        ELSE IF s[Len(s)].status # NULL THEN s[Len(s)].status
        ELSE s[Len(s)].to

\* Mutant of StepSteps: the new step is put first (newest first).
StepStepsPrepend(prev, s) == <<s>> \o prev

\* step listener: setSteps(prev => [...prev, data.step])
StepSteps(prev, s) == Append(prev, s)

\* Mutant of StepStatus: the status field of the step is not read.
StepStatusIgnoresStatus(s) ==
    IF s.type = "status_change" THEN s.to
    ELSE IF s.rstatus # NULL THEN s.rstatus
    ELSE "UNKNOWN"

\* step listener: s.type === "status_change" ? s.to
\*                 : (s.status || s.result?.status || "UNKNOWN")
StepStatus(s) ==
    IF s.type = "status_change" THEN s.to
    ELSE IF s.status # NULL THEN s.status
    ELSE IF s.rstatus # NULL THEN s.rstatus
    ELSE "UNKNOWN"

\* the synthetic step of the deleted listener
DeletedStep == MkStep(NULL, NULL, "deleted", NULL, "system")

\* Mutant of DeletedSteps: the history is cleared, the synthetic step is alone.
DeletedStepsClears(prev) == <<DeletedStep>>

\* deleted listener: setSteps(prev => [...prev, {agent: "system", ...}])
DeletedSteps(prev) == Append(prev, DeletedStep)

\* render: {status || "N/A"}
CurrentStatusText(st) == IF st = NULL THEN "N/A" ELSE st

\* es.close()
CloseEs(conns, c) == IF c = 0 THEN conns ELSE [conns EXCEPT ![c].readyState = CLOSED]

\* effect body, "close any previous ES": if (esRef.current) esRef.current.close()
EffectClosePrev(conns, ref) == CloseEs(conns, ref)

\* Mutant of EffectCleanup: the cleanup forgets es.close().
EffectCleanupNoClose(conns, c) == conns

\* effect cleanup: es.close() on the EventSource the effect created
EffectCleanup(conns, c) == CloseEs(conns, c)

\* effect body: new EventSource(url)
NewEs(conns, id) == Append(conns, [inv |-> id, readyState |-> CONNECTING])

Conns == 1..Len(es)

(***************************************************************************)
(* InvoiceJourney: lifecycle.  React runs the cleanup of the previous      *)
(* effect and then the effect body when invoiceId changes; a cleanup       *)
(* exists only if the previous run did not return early (invoiceId set).   *)
(* These three are what a render of the page does to the view; the page    *)
(* actions below decide which of them happens.                             *)
(***************************************************************************)
\* The first render of a new instance: useState initial values, then the
\* effect body.
JMount(id) ==
    /\ jmounted' = TRUE
    /\ invoiceId' = id
    /\ steps' = <<>>
    /\ status' = NULL
    /\ connected' = FALSE
    /\ IF id = 0
       THEN es' = es /\ esRef' = 0
       ELSE es' = NewEs(EffectClosePrev(es, 0), id) /\ esRef' = Len(es) + 1
    /\ hist' = <<>>
    /\ lateCb' = NoCb
    /\ UNCHANGED prevShown

\* A render of the mounted instance with another invoiceId: the cleanup of
\* the previous effect run, then the effect body.  steps and status are
\* state of the instance and are not written.
JSetInvoiceId(id) ==
    /\ invoiceId' = id
    /\ LET hadEffect == invoiceId # 0
           cleaned == IF hadEffect THEN EffectCleanup(es, esRef) ELSE es
           ref == IF hadEffect THEN 0 ELSE esRef
       IN  /\ connected' = (IF hadEffect THEN FALSE ELSE connected)
           /\ IF id = 0
              THEN es' = cleaned /\ esRef' = ref
              ELSE es' = NewEs(EffectClosePrev(cleaned, ref), id) /\ esRef' = Len(es) + 1
    /\ prevShown' = (Len(steps) > 0)
    /\ lateCb' = NoCb
    /\ UNCHANGED <<jmounted, steps, status, hist>>

\* The instance is removed: the cleanup of the effect, the state is dropped.
JUnmount ==
    /\ jmounted' = FALSE
    /\ es' = (IF invoiceId # 0 THEN EffectCleanup(es, esRef) ELSE es)
    /\ esRef' = 0
    /\ invoiceId' = 0
    /\ steps' = <<>>
    /\ status' = NULL
    /\ connected' = FALSE
    /\ hist' = <<>>
    /\ prevShown' = (Len(steps) > 0)
    /\ lateCb' = NoCb

(***************************************************************************)
(* Submit Invoice page: lastInvoiceId decides whether the journey view is  *)
(* rendered:  lastInvoiceId ? <InvoiceJourney invoiceId={lastInvoiceId} /> *)
(*                          : placeholder                                  *)
(***************************************************************************)
\* What rendering the page with lastInvoiceId = id does to the view.
Render(id) ==
    IF id = 0
    THEN IF jmounted THEN JUnmount
         ELSE lateCb' = NoCb /\ UNCHANGED <<jcore, prevShown>>
    ELSE IF ~jmounted THEN JMount(id)
    ELSE IF id # invoiceId THEN JSetInvoiceId(id)
    ELSE lateCb' = NoCb /\ UNCHANGED <<jcore, prevShown>>

\* Mutant of SubmitStartId: a submission keeps the previous lastInvoiceId.
SubmitStartIdKeeps(prev) == prev

\* handleSubmitInvoice: setLastInvoiceId(null)
SubmitStartId(prev) == 0

\* handleSubmitInvoice after the response: setLastInvoiceId(invoiceId) when
\* r.ok and the response names an id (id # 0)
SubmitDoneId(prev, ok, id) == IF ok /\ id # 0 THEN id ELSE prev

\* handleSubmitInvoice up to its await: the click on Submit Invoice
\* (disabled={loadingSubmit}).  JSON.parse(jsonText) may throw: catch, then
\* finally setLoadingSubmit(false), and no request is sent.
HandleSubmitInvoice(parses) ==
    /\ ~loadingSubmit
    /\ Len(es) < MaxConns
    /\ LET id == SubmitStartId(lastInvoiceId)
       IN  lastInvoiceId' = id /\ Render(id)
    /\ loadingSubmit' = parses
    /\ submitReq' = parses
    /\ lastSubmit' = [outcome |-> IF parses THEN "sending" ELSE "invalid_json", id |-> 0]
    /\ UNCHANGED <<tvars, pvars, dvars, ivars, rvars>>

\* handleSubmitInvoice after its await: the response (ok with or without an
\* id, not ok) or a rejected fetch (ok = FALSE); finally
\* setLoadingSubmit(false).
SubmitDone(ok, id) ==
    /\ submitReq
    /\ LET new == SubmitDoneId(lastInvoiceId, ok, id)
       IN  lastInvoiceId' = new /\ Render(new)
    /\ loadingSubmit' = FALSE
    /\ submitReq' = FALSE
    /\ lastSubmit' = [outcome |-> IF ok THEN "ok" ELSE "failed",
                       id |-> IF ok THEN id ELSE 0]
    /\ UNCHANGED <<tvars, pvars, dvars, ivars, rvars>>

\* The Clear button: setLastInvoiceId(null)
ClearClick ==
    /\ lastInvoiceId' = 0
    /\ Render(0)
    /\ UNCHANGED <<loadingSubmit, submitReq, lastSubmit>>
    /\ UNCHANGED <<tvars, pvars, dvars, ivars, rvars>>

(***************************************************************************)
(* InvoiceJourney: the stream callbacks.  The browser runs a callback of   *)
(* an EventSource only while its readyState is not CLOSED; a task queued   *)
(* before close() finds it CLOSED and is discarded (JLateCallback).        *)
(* n bounds the callbacks one view handles.                                *)
(***************************************************************************)
\* Mutant of OnErrorConnected: onerror leaves the connected flag as it is.
OnErrorConnectedKeeps(prev) == prev

\* es.onerror: setConnected(false)
OnErrorConnected(prev) == FALSE

\* Mutant of StepApplies: any valid JSON is taken to carry a step.
StepAppliesAnyJson(data) == data.valid

\* step listener: JSON.parse(ev.data) does not throw and data?.step is set
StepApplies(data) == data.valid /\ data.hasStep

JOnOpen(c, n) ==
    /\ jmounted /\ Len(hist) < n
    /\ es[c].readyState = CONNECTING
    /\ es' = [es EXCEPT ![c].readyState = OPEN]
    /\ connected' = TRUE
    /\ hist' = Append(hist, Ev("open", c, TRUE, <<>>))
    /\ lateCb' = NoCb
    /\ UNCHANGED <<jmounted, invoiceId, steps, status, esRef>>
    /\ UNCHANGED <<jpage, prevShown, tvars, pvars, dvars, ivars, rvars>>

\* The transport reconnects (CONNECTING) or gives up (CLOSED), then onerror.
JOnError(c, fatal, n) ==
    /\ jmounted /\ Len(hist) < n
    /\ es[c].readyState \in {CONNECTING, OPEN}
    /\ es' = [es EXCEPT ![c].readyState = IF fatal THEN CLOSED ELSE CONNECTING]
    /\ connected' = OnErrorConnected(connected)
    /\ hist' = Append(hist, Ev("error", c, TRUE, <<>>))
    /\ lateCb' = NoCb
    /\ UNCHANGED <<jmounted, invoiceId, steps, status, esRef>>
    /\ UNCHANGED <<jpage, prevShown, tvars, pvars, dvars, ivars, rvars>>

JInit(c, data, n) ==
    /\ jmounted /\ Len(hist) < n
    /\ es[c].readyState = OPEN
    /\ IF data.valid
       THEN /\ steps' = InitSteps(steps, data)
            /\ status' = InitStatus(data)
       ELSE UNCHANGED <<steps, status>>
    /\ hist' = Append(hist, Ev("init", c, data.valid, data.steps))
    /\ lateCb' = NoCb
    /\ UNCHANGED <<jmounted, invoiceId, connected, esRef, es>>
    /\ UNCHANGED <<jpage, prevShown, tvars, pvars, dvars, ivars, rvars>>

JStep(c, data, n) ==
    /\ jmounted /\ Len(hist) < n
    /\ es[c].readyState = OPEN
    /\ IF StepApplies(data)
       THEN /\ steps' = StepSteps(steps, data.step)
            /\ status' = StepStatus(data.step)
       ELSE UNCHANGED <<steps, status>>
    /\ hist' = Append(hist, Ev("step", c, data.valid /\ data.hasStep,
                               IF data.hasStep THEN <<data.step>> ELSE <<>>))
    /\ lateCb' = NoCb
    /\ UNCHANGED <<jmounted, invoiceId, connected, esRef, es>>
    /\ UNCHANGED <<jpage, prevShown, tvars, pvars, dvars, ivars, rvars>>

JDeleted(c, n) ==
    /\ jmounted /\ Len(hist) < n
    /\ es[c].readyState = OPEN
    /\ steps' = DeletedSteps(steps)
    /\ hist' = Append(hist, Ev("deleted", c, TRUE, <<>>))
    /\ lateCb' = NoCb
    /\ UNCHANGED <<jmounted, invoiceId, status, connected, esRef, es>>
    /\ UNCHANGED <<jpage, prevShown, tvars, pvars, dvars, ivars, rvars>>

\* Any callback (open, error, init, step, deleted) of a closed EventSource.
JLateCallback(c) ==
    /\ es[c].readyState = CLOSED
    /\ lateCb # c
    /\ lateCb' = c
    /\ UNCHANGED <<jmounted, invoiceId, steps, status, connected, esRef, es, hist>>
    /\ UNCHANGED <<jpage, prevShown, tvars, pvars, dvars, ivars, rvars>>

\* The Submit Invoice page before a submission: no journey view is mounted
\* and no task list is shown.
InitJourney ==
    /\ lastInvoiceId = 0
    /\ loadingSubmit = FALSE
    /\ submitReq = FALSE
    /\ lastSubmit = NoSubmit
    /\ prevShown = FALSE
    /\ jmounted = FALSE
    /\ invoiceId = 0
    /\ steps = <<>>
    /\ status = NULL
    /\ connected = FALSE
    /\ esRef = 0
    /\ es = <<>>
    /\ hist = <<>>
    /\ lateCb = NoCb
    /\ pending = {}
    /\ task = [k \in TaskIds |-> [status |-> "pending", invStatus |-> NULL]]
    /\ rowMounted = [k \in TaskIds |-> FALSE]
    /\ submitting = [k \in TaskIds |-> FALSE]
    /\ invoiceStatus = [k \in TaskIds |-> NULL]
    /\ tes = [k \in TaskIds |-> CLOSED]
    /\ reqs = [k \in TaskIds |-> <<>>]
    /\ viaHttp = [k \in TaskIds |-> FALSE]
    /\ viaSse = [k \in TaskIds |-> FALSE]
    /\ nRemoved = [k \in TaskIds |-> 0]
    /\ lastResp = NoResp
    /\ lastIgnored = FALSE
    /\ pmounted = FALSE
    /\ ptasks = {}
    /\ ploading = FALSE
    /\ actioning = 0
    /\ ploads = 0
    /\ pacts = <<>>
    /\ palert = NULL
    /\ pconfirm = NULL
    /\ dmounted = FALSE
    /\ did = 0
    /\ dinvoice = NoDoc
    /\ dloading = FALSE
    /\ dactioning = FALSE
    /\ dmsg = NULL
    /\ dloads = <<>>
    /\ dacts = <<>>
    /\ dlast = NoResp
    /\ dconfirm = NULL
    /\ imounted = FALSE
    /\ iq = ""
    /\ iinvoices = {}
    /\ iloading = FALSE
    /\ ireqs = <<>>
    /\ ilatest = NoItems
    /\ rinput = NoInput
    /\ rendered = NotRendered

JNext ==
    \/ \E parses \in BOOLEAN : HandleSubmitInvoice(parses)
    \/ \E ok \in BOOLEAN, id \in InvoiceProp : SubmitDone(ok, id)
    \/ ClearClick
    \/ \E c \in Conns : JOnOpen(c, MaxEvents)
    \/ \E c \in Conns, fatal \in BOOLEAN : JOnError(c, fatal, MaxEvents)
    \/ \E c \in Conns, data \in InitData : JInit(c, data, MaxEvents)
    \/ \E c \in Conns, data \in StepData : JStep(c, data, MaxEvents)
    \/ \E c \in Conns : JDeleted(c, MaxEvents)
    \/ \E c \in Conns : JLateCallback(c)

(***************************************************************************)
(* The replay scenarios: fewer kinds of events, longer histories.          *)
(***************************************************************************)
\* RECEIVED, VALIDATED, an agent_result without status hint, APPROVAL_PENDING
Scenario == <<sReceived, sValidated, sNoHint, sPending>>

\* ev.data of the step events of the scenario
ReplayStepData ==
    {[valid |-> TRUE, hasStep |-> TRUE, step |-> Scenario[i]] : i \in 1..Len(Scenario)}

\* ev.data of the init event of the scenario
ReplayInitData == {[valid |-> TRUE, hasSteps |-> TRUE, steps |-> Scenario]}

ReplayNext ==
    \/ \E parses \in BOOLEAN : HandleSubmitInvoice(parses)
    \/ \E ok \in BOOLEAN, id \in InvoiceProp : SubmitDone(ok, id)
    \/ ClearClick
    \/ \E c \in Conns : JOnOpen(c, MaxReplay)
    \/ \E c \in Conns, fatal \in BOOLEAN : JOnError(c, fatal, MaxReplay)
    \/ \E c \in Conns, data \in ReplayInitData : JInit(c, data, MaxReplay)
    \/ \E c \in Conns, data \in ReplayStepData : JStep(c, data, MaxReplay)

(***************************************************************************)
(* TaskRow: one row per pending task, with Approve / Reject buttons and    *)
(* its own EventSource on /api/v1/events.  The parent list and the         *)
(* onTaskRemoved callback it passes are not part of the sources: the list  *)
(* is a set of task ids and onTaskRemoved removes the id from it.          *)
(***************************************************************************)
\* task.invoice._id of task k (each task has an invoice of its own)
InvOf(k) == k

\* The task prop: task.status and task.invoice?.status
TaskPool ==
    {[status |-> "pending", invStatus |-> NULL],
     [status |-> "pending", invStatus |-> "APPROVAL_PENDING"],
     [status |-> "completed", invStatus |-> "POSTED"]}

\* e.data of a message of the stream
Msg(ok, type, inv, tid, st) ==
    [ok |-> ok, type |-> type, invoice_id |-> inv, task_id |-> tid, status |-> st]

MsgPool ==
    {Msg(FALSE, NULL, 0, 0, NULL)}
    \cup {Msg(TRUE, "invoice:update", InvOf(k), 0, st) :
              k \in TaskIds, st \in {"APPROVAL_PENDING", "REJECTED"}}
    \cup {Msg(TRUE, "task:update", 0, k, st) :
              k \in TaskIds, st \in {"completed", "pending"}}

\* Mutant of IsTerminal: REJECTED is not in the list.
IsTerminalNoRejected(st) == st \in {"READY_FOR_POSTING", "POSTED", "CANCELLED"}

\* ['READY_FOR_POSTING','REJECTED','POSTED','CANCELLED'].includes(invoiceStatus)
IsTerminal(st) == st \in {"READY_FOR_POSTING", "REJECTED", "POSTED", "CANCELLED"}

\* Mutant of Disabled: the submitting flag is not part of disabled.
DisabledNoSubmitting(k) == task[k].status = "completed" \/ IsTerminal(invoiceStatus[k])

\* disabled = submitting || task.status === 'completed' || isTerminal
Disabled(k) ==
    submitting[k] \/ task[k].status = "completed" \/ IsTerminal(invoiceStatus[k])

\* Mutant of InvoiceUpdateApplies: the invoice id of the message is not compared.
InvoiceUpdateAppliesAny(k, msg) == msg.ok /\ msg.type = "invoice:update"

\* es.onmessage: msg.type === 'invoice:update' && msg.invoice_id === task.invoice?._id
InvoiceUpdateApplies(k, msg) ==
    msg.ok /\ msg.type = "invoice:update" /\ msg.invoice_id = InvOf(k)

\* es.onmessage: msg.type === 'task:update' && msg.task_id === task._id
\*               && msg.status === 'completed'
TaskCompletedApplies(k, msg) ==
    msg.ok /\ msg.type = "task:update" /\ msg.task_id = k /\ msg.status = "completed"

\* A message row k has nothing to do with: e.data is not JSON, an
\* invoice:update of another invoice, a task:update of another task or of
\* a status other than "completed".
NotForRow(k, msg) ==
    \/ ~msg.ok
    \/ msg.type = "invoice:update" /\ msg.invoice_id # InvOf(k)
    \/ msg.type = "task:update" /\ (msg.task_id # k \/ msg.status # "completed")

\* Mutant of ActionSucceeded: the row is kept after a 2xx response.
ActionSucceededKeepsTask(list, k) == list

\* handleAction after a 2xx response: onTaskRemoved(task._id)
ActionSucceeded(list, k) == list \ {k}

\* es.onmessage for a completed task: onTaskRemoved(task._id)
TaskCompleted(list, k) == list \ {k}

\* fetch(url, {method, headers, body}): no signal and no timer, so a
\* request the server never answers never settles.
FetchTimesOut == FALSE

\* s without its i-th element
RemoveAt(s, i) == SubSeq(s, 1, i - 1) \o SubSeq(s, i + 1, Len(s))

\* handleAction up to its await: the click on an enabled button of a row
\* the list still shows; setSubmitting(true), then fetch.
TClick(k, actionType) ==
    /\ rowMounted[k] /\ k \in pending
    /\ ~Disabled(k)
    /\ Len(reqs[k]) < MaxInflight
    /\ submitting' = [submitting EXCEPT ![k] = TRUE]
    /\ reqs' = [reqs EXCEPT ![k] = Append(@, [action |-> actionType,
                                                before |-> invoiceStatus[k],
                                                touched |-> FALSE,
                                                lost |-> FALSE])]
    /\ lastResp' = NoResp
    /\ UNCHANGED <<pending, task, rowMounted, invoiceStatus, tes, viaHttp, viaSse, nRemoved>>
    /\ lastIgnored' = FALSE
    /\ UNCHANGED <<jvars, pvars, dvars, ivars, rvars>>

Outcomes == {"ok", "not_ok", "network_error"}

\* handleAction after its await: a 2xx response removes the task; a non-2xx
\* response or a rejected fetch is logged; finally setSubmitting(false).
\* The continuation runs even if the row has been unmounted meanwhile.
\* A lost request settles only if the client gives up on it.
TRespond(k, i, outcome) ==
    /\ i \in 1..Len(reqs[k])
    /\ reqs[k][i].lost => (FetchTimesOut /\ outcome = "network_error")
    /\ IF outcome = "ok"
       THEN /\ pending' = ActionSucceeded(pending, k)
            /\ viaHttp' = [viaHttp EXCEPT ![k] = TRUE]
            /\ nRemoved' = [nRemoved EXCEPT ![k] = IF pending' # pending THEN @ + 1 ELSE @]
       ELSE UNCHANGED <<pending, viaHttp, nRemoved>>
    /\ submitting' = [submitting EXCEPT ![k] = FALSE]
    /\ lastResp' = [task |-> k, ok |-> outcome = "ok",
                     before |-> reqs[k][i].before, touched |-> reqs[k][i].touched]
    /\ reqs' = [reqs EXCEPT ![k] = RemoveAt(@, i)]
    /\ UNCHANGED <<task, rowMounted, invoiceStatus, tes, viaSse>>
    /\ lastIgnored' = FALSE
    /\ UNCHANGED <<jvars, pvars, dvars, ivars, rvars>>

\* The network silently drops the connection of an action request.
TDrop(k, i) ==
    /\ i \in 1..Len(reqs[k])
    /\ ~reqs[k][i].lost
    /\ reqs' = [reqs EXCEPT ![k][i].lost = TRUE]
    /\ lastResp' = NoResp
    /\ UNCHANGED <<pending, task, rowMounted, submitting, invoiceStatus, tes,
                   viaHttp, viaSse, nRemoved>>
    /\ lastIgnored' = FALSE
    /\ UNCHANGED <<jvars, pvars, dvars, ivars, rvars>>

\* The transport connects the row's EventSource.
TEsOpen(k) ==
    /\ tes[k] = CONNECTING
    /\ tes' = [tes EXCEPT ![k] = OPEN]
    /\ lastResp' = NoResp
    /\ UNCHANGED <<pending, task, rowMounted, submitting, invoiceStatus, reqs,
                   viaHttp, viaSse, nRemoved>>
    /\ lastIgnored' = FALSE
    /\ UNCHANGED <<jvars, pvars, dvars, ivars, rvars>>

\* es.onmessage
TOnMessage(k, msg) ==
    /\ rowMounted[k] /\ tes[k] = OPEN
    /\ invoiceStatus' = [invoiceStatus EXCEPT
                            ![k] = IF InvoiceUpdateApplies(k, msg) THEN msg.status ELSE @]
    /\ reqs' = [reqs EXCEPT
                   ![k] = IF msg.ok /\ msg.type = "invoice:update" /\ msg.invoice_id = InvOf(k)
                          THEN [j \in 1..Len(@) |-> [@[j] EXCEPT !.touched = TRUE]]
                          ELSE @]
    /\ IF TaskCompletedApplies(k, msg)
       THEN /\ pending' = TaskCompleted(pending, k)
            /\ viaSse' = [viaSse EXCEPT ![k] = TRUE]
            /\ nRemoved' = [nRemoved EXCEPT ![k] = IF pending' # pending THEN @ + 1 ELSE @]
       ELSE UNCHANGED <<pending, viaSse, nRemoved>>
    /\ lastResp' = NoResp
    /\ lastIgnored' = NotForRow(k, msg)
    /\ \/ invoiceStatus' # invoiceStatus \/ reqs' # reqs
       \/ pending' # pending \/ viaSse' # viaSse \/ lastResp' # lastResp
       \/ lastIgnored' # lastIgnored
    /\ UNCHANGED <<task, rowMounted, submitting, tes, viaHttp>>
    /\ UNCHANGED <<jvars, pvars, dvars, ivars, rvars>>

\* The parent renders the row again with a new task object or callback:
\* the effect's dependencies change, its cleanup closes the EventSource
\* and the effect body opens a new one.
TResubscribe(k) ==
    /\ rowMounted[k] /\ k \in pending
    /\ tes[k] = OPEN
    /\ tes' = [tes EXCEPT ![k] = CONNECTING]
    /\ lastResp' = NoResp
    /\ UNCHANGED <<pending, task, rowMounted, submitting, invoiceStatus, reqs,
                   viaHttp, viaSse, nRemoved>>
    /\ lastIgnored' = FALSE
    /\ UNCHANGED <<jvars, pvars, dvars, ivars, rvars>>

\* The list no longer holds the task: the row unmounts, its effect cleanup
\* closes the EventSource and its state is dropped.
TUnmount(k) ==
    /\ rowMounted[k] /\ k \notin pending
    /\ rowMounted' = [rowMounted EXCEPT ![k] = FALSE]
    /\ tes' = [tes EXCEPT ![k] = CLOSED]
    /\ submitting' = [submitting EXCEPT ![k] = FALSE]
    /\ invoiceStatus' = [invoiceStatus EXCEPT ![k] = NULL]
    /\ lastResp' = NoResp
    /\ UNCHANGED <<pending, task, reqs, viaHttp, viaSse, nRemoved>>
    /\ lastIgnored' = FALSE
    /\ UNCHANGED <<jvars, pvars, dvars, ivars, rvars>>

\* The list shows every task; each row has run useState and its effect.
\* No journey view is mounted.
InitTaskRow ==
    /\ pending = TaskIds
    /\ task \in [TaskIds -> TaskPool]
    /\ rowMounted = [k \in TaskIds |-> TRUE]
    /\ submitting = [k \in TaskIds |-> FALSE]
    /\ invoiceStatus = [k \in TaskIds |-> task[k].invStatus]
    /\ tes = [k \in TaskIds |-> CONNECTING]
    /\ reqs = [k \in TaskIds |-> <<>>]
    /\ viaHttp = [k \in TaskIds |-> FALSE]
    /\ viaSse = [k \in TaskIds |-> FALSE]
    /\ nRemoved = [k \in TaskIds |-> 0]
    /\ lastResp = NoResp
    /\ lastIgnored = FALSE
    /\ lastInvoiceId = 0
    /\ loadingSubmit = FALSE
    /\ submitReq = FALSE
    /\ lastSubmit = NoSubmit
    /\ prevShown = FALSE
    /\ jmounted = FALSE
    /\ invoiceId = 0
    /\ steps = <<>>
    /\ status = NULL
    /\ connected = FALSE
    /\ esRef = 0
    /\ es = <<>>
    /\ hist = <<>>
    /\ lateCb = NoCb
    /\ pmounted = FALSE
    /\ ptasks = {}
    /\ ploading = FALSE
    /\ actioning = 0
    /\ ploads = 0
    /\ pacts = <<>>
    /\ palert = NULL
    /\ pconfirm = NULL
    /\ dmounted = FALSE
    /\ did = 0
    /\ dinvoice = NoDoc
    /\ dloading = FALSE
    /\ dactioning = FALSE
    /\ dmsg = NULL
    /\ dloads = <<>>
    /\ dacts = <<>>
    /\ dlast = NoResp
    /\ dconfirm = NULL
    /\ imounted = FALSE
    /\ iq = ""
    /\ iinvoices = {}
    /\ iloading = FALSE
    /\ ireqs = <<>>
    /\ ilatest = NoItems
    /\ rinput = NoInput
    /\ rendered = NotRendered

TNext ==
    \/ \E k \in TaskIds, a \in {"approve", "reject"} : TClick(k, a)
    \/ \E k \in TaskIds, i \in 1..MaxInflight, o \in Outcomes : TRespond(k, i, o)
    \/ \E k \in TaskIds, i \in 1..MaxInflight : TDrop(k, i)
    \/ \E k \in TaskIds : TEsOpen(k)
    \/ \E k \in TaskIds, msg \in MsgPool : TOnMessage(k, msg)
    \/ \E k \in TaskIds : TResubscribe(k)
    \/ \E k \in TaskIds : TUnmount(k)

(***************************************************************************)
(* Tasks page (pages/POs.jsx, Tasks): the list fetched by getTasks, with   *)
(* Approve / Reject on the tasks of type "approval".                       *)
(***************************************************************************)
\* The tasks the server may list; t.type === "approval" for two of them.
PageTaskIds == {1, 2, 3}
ApprovalTasks == {1, 2}

\* The data of a getTasks response: any set of tasks.
TasksResponses == SUBSET PageTaskIds

Kinds == {"approve", "reject"}

\* alert("Approved") / alert("Rejected")
DoneText(kind) == IF kind = "approve" THEN "Approved" ELSE "Rejected"

\* "Approve failed" / "Reject failed"
FailedText(kind) == IF kind = "approve" THEN "Approve failed" ELSE "Reject failed"

\* axios.create({ baseURL, timeout: 20000 }), in milliseconds
ClientTimeout == 20000

\* A request of the axios client that gets no response is rejected after
\* the timeout.
AxiosTimesOut == ClientTimeout > 0

\* Mutant of PButtonsDisabled: the buttons ignore the actioning flag.
PButtonsNeverDisabled == FALSE

\* disabled={actioning}
PButtonsDisabled == actioning # 0

\* Mutant of Proceeds: the answer to the confirmation is not looked at.
ProceedsAlways(confirmed) == TRUE

\* if (!window.confirm("Approve this invoice?")) return;
Proceeds(confirmed) == confirmed

\* load() after getTasks: setTasks(data) or, in catch, setTasks([])
LoadedTasks(ok, resp) == IF ok THEN resp ELSE {}

\* handleApprove / handleReject up to the await: window.confirm, then
\* setActioning(task._id || task.id) and the request.
PHandle(k, kind, confirmed) ==
    /\ pmounted /\ ~ploading
    /\ k \in ptasks /\ k \in ApprovalTasks
    /\ ~PButtonsDisabled
    /\ Len(pacts) < MaxInflight
    /\ pconfirm' = (IF confirmed THEN "accepted" ELSE "declined")
    /\ IF Proceeds(confirmed)
       THEN /\ actioning' = k
            /\ pacts' = Append(pacts, [task |-> k, kind |-> kind, phase |-> "posting",
                                       lost |-> FALSE])
       ELSE UNCHANGED <<actioning, pacts>>
    /\ UNCHANGED <<pmounted, ptasks, ploading, ploads, palert>>
    /\ UNCHANGED <<jvars, tvars, dvars, ivars, rvars>>

PHandleApprove(k, confirmed) == PHandle(k, "approve", confirmed)

PHandleReject(k, confirmed) == PHandle(k, "reject", confirmed)

\* The network silently drops the connection of an action request.
PDrop(i) ==
    /\ i \in 1..Len(pacts) /\ pacts[i].phase = "posting"
    /\ ~pacts[i].lost
    /\ pacts' = [pacts EXCEPT ![i].lost = TRUE]
    /\ pconfirm' = NULL
    /\ UNCHANGED <<pmounted, ptasks, ploading, actioning, ploads, palert>>
    /\ UNCHANGED <<jvars, tvars, dvars, ivars, rvars>>

\* handleApprove / handleReject after the action request: on success the
\* alert, then load() up to its await; on failure (an error response, a
\* network error or the client's timeout) the alert, then finally
\* setActioning(null).
PActionDone(i, ok) ==
    /\ i \in 1..Len(pacts) /\ pacts[i].phase = "posting"
    /\ pacts[i].lost => (AxiosTimesOut /\ ~ok)
    /\ IF ok
       THEN /\ palert' = DoneText(pacts[i].kind)
            /\ ploading' = TRUE
            /\ pacts' = [pacts EXCEPT ![i].phase = "reloading"]
            /\ UNCHANGED actioning
       ELSE /\ palert' = FailedText(pacts[i].kind)
            /\ actioning' = 0
            /\ pacts' = RemoveAt(pacts, i)
            /\ UNCHANGED ploading
    /\ pconfirm' = NULL
    /\ UNCHANGED <<pmounted, ptasks, ploads>>
    /\ UNCHANGED <<jvars, tvars, dvars, ivars, rvars>>

\* The load() awaited by handleApprove / handleReject completes (it catches
\* its own errors), then finally setActioning(null).
PReloadDone(i, ok, resp) ==
    /\ i \in 1..Len(pacts) /\ pacts[i].phase = "reloading"
    /\ ptasks' = LoadedTasks(ok, resp)
    /\ ploading' = FALSE
    /\ actioning' = 0
    /\ pacts' = RemoveAt(pacts, i)
    /\ pconfirm' = NULL
    /\ UNCHANGED <<pmounted, ploads, palert>>
    /\ UNCHANGED <<jvars, tvars, dvars, ivars, rvars>>

\* The load() of the mount effect completes.
PLoadDone(ok, resp) ==
    /\ ploads > 0
    /\ ptasks' = LoadedTasks(ok, resp)
    /\ ploading' = FALSE
    /\ ploads' = ploads - 1
    /\ pconfirm' = NULL
    /\ UNCHANGED <<pmounted, actioning, pacts, palert>>
    /\ UNCHANGED <<jvars, tvars, dvars, ivars, rvars>>

PNext ==
    \/ \E k \in PageTaskIds, c \in BOOLEAN : PHandleApprove(k, c)
    \/ \E k \in PageTaskIds, c \in BOOLEAN : PHandleReject(k, c)
    \/ \E i \in 1..MaxInflight : PDrop(i)
    \/ \E i \in 1..MaxInflight, ok \in BOOLEAN : PActionDone(i, ok)
    \/ \E i \in 1..MaxInflight, ok \in BOOLEAN, resp \in TasksResponses : PReloadDone(i, ok, resp)
    \/ \E ok \in BOOLEAN, resp \in TasksResponses : PLoadDone(ok, resp)

(***************************************************************************)
(* Invoice detail page (pages/POs.jsx, InvoiceDetail): the invoice of the  *)
(* route id, with Approve / Reject.                                        *)
(***************************************************************************)
\* invoice.status of a getInvoice response
DocStatuses == {"APPROVAL_PENDING", "APPROVED"}

Doc(id, st) == [id |-> id, status |-> st]

\* The Approve and Reject buttons are rendered and enabled:
\* !loading, invoice, disabled={actioning}
DButtonsEnabled == ~dloading /\ dinvoice # NoDoc /\ ~dactioning

\* The route id changes: the cleanup of the load effect sets cancelled,
\* the effect body runs load() up to its await.
DNavigate(id) ==
    /\ dmounted /\ id # did
    /\ Len(dloads) < MaxInflight
    /\ did' = id
    /\ dloading' = TRUE
    /\ dmsg' = NULL
    /\ dloads' = Append([j \in 1..Len(dloads) |-> [dloads[j] EXCEPT !.cancelled = TRUE]],
                        [id |-> id, cancelled |-> FALSE])
    /\ dlast' = NoResp
    /\ dconfirm' = NULL
    /\ UNCHANGED <<dmounted, dinvoice, dactioning, dacts>>
    /\ UNCHANGED <<jvars, tvars, pvars, ivars, rvars>>

\* load() after getInvoice.
DLoadDone(i, ok, st) ==
    /\ i \in 1..Len(dloads)
    /\ dinvoice' = (IF ok /\ ~dloads[i].cancelled THEN Doc(dloads[i].id, st) ELSE dinvoice)
    /\ dmsg' = (IF ok THEN dmsg ELSE "Failed to load invoice")
    /\ dloading' = (IF dloads[i].cancelled THEN dloading ELSE FALSE)
    /\ dloads' = RemoveAt(dloads, i)
    /\ dacts' = [j \in 1..Len(dacts) |->
                    [dacts[j] EXCEPT !.touched = @ \/ dinvoice' # dinvoice]]
    /\ dlast' = NoResp
    /\ dconfirm' = NULL
    /\ UNCHANGED <<dmounted, did, dactioning>>
    /\ UNCHANGED <<jvars, tvars, pvars, ivars, rvars>>

\* doApprove / doReject up to the await: confirm, then setActioning(true),
\* setMsg(null) and the request for the id of this render.
DHandle(kind, confirmed) ==
    /\ dmounted /\ DButtonsEnabled
    /\ Len(dacts) < MaxInflight
    /\ dconfirm' = (IF confirmed THEN "accepted" ELSE "declined")
    /\ IF Proceeds(confirmed)
       THEN /\ dactioning' = TRUE
            /\ dmsg' = NULL
            /\ dacts' = Append(dacts, [id |-> did, kind |-> kind, phase |-> "posting",
                                       before |-> dinvoice.status, touched |-> FALSE])
       ELSE UNCHANGED <<dactioning, dmsg, dacts>>
    /\ dlast' = NoResp
    /\ UNCHANGED <<dmounted, did, dinvoice, dloading, dloads>>
    /\ UNCHANGED <<jvars, tvars, pvars, ivars, rvars>>

DoApprove(confirmed) == DHandle("approve", confirmed)

DoReject(confirmed) == DHandle("reject", confirmed)

\* doApprove / doReject after the action request: on success setMsg and the
\* refresh request; on failure setMsg(... failed), finally setActioning(false).
DActionDone(i, ok) ==
    /\ i \in 1..Len(dacts) /\ dacts[i].phase = "posting"
    /\ IF ok
       THEN /\ dmsg' = DoneText(dacts[i].kind)
            /\ dacts' = [dacts EXCEPT ![i].phase = "refreshing"]
            /\ dlast' = NoResp
            /\ UNCHANGED dactioning
       ELSE /\ dmsg' = FailedText(dacts[i].kind)
            /\ dactioning' = FALSE
            /\ dacts' = RemoveAt(dacts, i)
            /\ dlast' = [task |-> dacts[i].id, ok |-> FALSE,
                         before |-> dacts[i].before, touched |-> dacts[i].touched]
    /\ dconfirm' = NULL
    /\ UNCHANGED <<dmounted, did, dinvoice, dloading, dloads>>
    /\ UNCHANGED <<jvars, tvars, pvars, ivars, rvars>>

\* doApprove / doReject after the refresh: setInvoice(doc), or in catch
\* setMsg(... failed); finally setActioning(false).
DRefreshDone(i, ok, st) ==
    /\ i \in 1..Len(dacts) /\ dacts[i].phase = "refreshing"
    /\ dinvoice' = (IF ok THEN Doc(dacts[i].id, st) ELSE dinvoice)
    /\ dmsg' = (IF ok THEN dmsg ELSE FailedText(dacts[i].kind))
    /\ dactioning' = FALSE
    /\ dacts' = [j \in 1..(Len(dacts) - 1) |->
                    [RemoveAt(dacts, i)[j] EXCEPT !.touched = @ \/ dinvoice' # dinvoice]]
    /\ dlast' = [task |-> dacts[i].id, ok |-> TRUE,
                 before |-> dacts[i].before, touched |-> dacts[i].touched]
    /\ dconfirm' = NULL
    /\ UNCHANGED <<dmounted, did, dloading, dloads>>
    /\ UNCHANGED <<jvars, tvars, pvars, ivars, rvars>>

DNext ==
    \/ \E id \in InvoiceIds : DNavigate(id)
    \/ \E i \in 1..MaxInflight, ok \in BOOLEAN, st \in DocStatuses : DLoadDone(i, ok, st)
    \/ \E c \in BOOLEAN : DoApprove(c)
    \/ \E c \in BOOLEAN : DoReject(c)
    \/ \E i \in 1..MaxInflight, ok \in BOOLEAN : DActionDone(i, ok)
    \/ \E i \in 1..MaxInflight, ok \in BOOLEAN, st \in DocStatuses : DRefreshDone(i, ok, st)

\* One of the three views with approve / reject is shown: the task rows,
\* the Tasks page (its mount effect has called load()), or the invoice
\* detail page of some invoice (its load effect has called load()).
InitActions ==
    \E view \in {"rows", "tasks", "detail"} :
        /\ pending = (IF view = "rows" THEN TaskIds ELSE {})
        /\ task \in (IF view = "rows" THEN [TaskIds -> TaskPool]
                     ELSE {[k \in TaskIds |-> [status |-> "pending", invStatus |-> NULL]]})
        /\ rowMounted = [k \in TaskIds |-> view = "rows"]
        /\ submitting = [k \in TaskIds |-> FALSE]
        /\ invoiceStatus = [k \in TaskIds |-> task[k].invStatus]
        /\ tes = [k \in TaskIds |-> IF view = "rows" THEN CONNECTING ELSE CLOSED]
        /\ reqs = [k \in TaskIds |-> <<>>]
        /\ viaHttp = [k \in TaskIds |-> FALSE]
        /\ viaSse = [k \in TaskIds |-> FALSE]
        /\ nRemoved = [k \in TaskIds |-> 0]
        /\ lastResp = NoResp
        /\ lastIgnored = FALSE
        /\ pmounted = (view = "tasks")
        /\ ptasks = {}
        /\ ploading = (view = "tasks")
        /\ actioning = 0
        /\ ploads = (IF view = "tasks" THEN 1 ELSE 0)
        /\ pacts = <<>>
        /\ palert = NULL
        /\ pconfirm = NULL
        /\ dmounted = (view = "detail")
        /\ did \in (IF view = "detail" THEN InvoiceIds ELSE {0})
        /\ dinvoice = NoDoc
        /\ dloading = (view = "detail")
        /\ dactioning = FALSE
        /\ dmsg = NULL
        /\ dloads = (IF view = "detail" THEN <<[id |-> did, cancelled |-> FALSE]>> ELSE <<>>)
        /\ dacts = <<>>
        /\ dlast = NoResp
        /\ dconfirm = NULL
        /\ imounted = FALSE
        /\ iq = ""
        /\ iinvoices = {}
        /\ iloading = FALSE
        /\ ireqs = <<>>
        /\ ilatest = NoItems
        /\ rinput = NoInput
        /\ rendered = NotRendered
        /\ lastInvoiceId = 0
        /\ loadingSubmit = FALSE
        /\ submitReq = FALSE
        /\ lastSubmit = NoSubmit
        /\ prevShown = FALSE
        /\ jmounted = FALSE
        /\ invoiceId = 0
        /\ steps = <<>>
        /\ status = NULL
        /\ connected = FALSE
        /\ esRef = 0
        /\ es = <<>>
        /\ hist = <<>>
        /\ lateCb = NoCb

ANext == TNext \/ PNext \/ DNext

\* The journey view alone (Submit Invoice page).
SpecJourney == InitJourney /\ [][JNext]_vars

\* The Submit Invoice page replaying the scenario events.
SpecReplay == InitJourney /\ [][ReplayNext]_vars

\* The task rows alone (pending-task list).
SpecTaskRow == InitTaskRow /\ [][TNext]_vars

\* The views with approve / reject: task rows, Tasks page, invoice detail.
SpecActions == InitActions /\ [][ANext]_vars

\* The same with the scheduling of the event loop: a response that has
\* arrived, or a timer that has fired, is handled.
ActionsFairness ==
    /\ \A k \in TaskIds : WF_vars(\E i \in 1..MaxInflight, o \in Outcomes : TRespond(k, i, o))
    /\ WF_vars(\E i \in 1..MaxInflight, ok \in BOOLEAN : PActionDone(i, ok))
    /\ WF_vars(\E i \in 1..MaxInflight, ok \in BOOLEAN, resp \in TasksResponses :
                   PReloadDone(i, ok, resp))
    /\ WF_vars(\E i \in 1..MaxInflight, ok \in BOOLEAN : DActionDone(i, ok))
    /\ WF_vars(\E i \in 1..MaxInflight, ok \in BOOLEAN, st \in DocStatuses :
                   DRefreshDone(i, ok, st))

SpecActionsFair == SpecActions /\ ActionsFairness

(***************************************************************************)
(* Invoices page (pages/Invoices.jsx): the list fetched by getInvoices on  *)
(* mount, by Search (the text of the search box) and by Clear.  The        *)
(* buttons are never disabled and load() keeps no record of the calls it   *)
(* has made: every response is applied when it arrives.                    *)
(***************************************************************************)
\* What the user may type into the search box.
Queries == {"", "INV-1", "PO-7"}

\* The data of a getInvoices response: any list of invoices.
InvoicesResponses == {{}, {1}, {1, 2}}

\* load() after getInvoices: setInvoices(items) or, in catch, setInvoices([])
LoadedInvoices(ok, items) == IF ok THEN items ELSE {}

\* onChange of the search box: setQ(e.target.value)
ISetQ(v) ==
    /\ imounted /\ v # iq
    /\ iq' = v
    /\ UNCHANGED <<imounted, iinvoices, iloading, ireqs, ilatest>>
    /\ UNCHANGED <<jvars, tvars, pvars, dvars, rvars>>

\* load(qstr) up to its await: setLoading(true), then getInvoices.
ILoad(qstr) ==
    /\ imounted
    /\ Len(ireqs) < MaxLoads
    /\ iloading' = TRUE
    /\ ireqs' = Append([j \in 1..Len(ireqs) |-> [ireqs[j] EXCEPT !.latest = FALSE]],
                       [q |-> qstr, latest |-> TRUE])
    /\ ilatest' = NoItems
    /\ UNCHANGED <<imounted, iq, iinvoices>>
    /\ UNCHANGED <<jvars, tvars, pvars, dvars, rvars>>

\* The Search button: onSearch = async () => { await load(q); }
IOnSearch == ILoad(iq)

\* The Clear button: load("")
IClear == ILoad("")

\* load() after its await, for any of the calls in flight: setInvoices,
\* finally setLoading(false).
ILoadDone(i, ok, items) ==
    /\ i \in 1..Len(ireqs)
    /\ iinvoices' = LoadedInvoices(ok, items)
    /\ iloading' = FALSE
    /\ ireqs' = RemoveAt(ireqs, i)
    /\ ilatest' = (IF ireqs[i].latest
                   THEN [done |-> TRUE, items |-> LoadedInvoices(ok, items)]
                   ELSE ilatest)
    /\ UNCHANGED <<imounted, iq>>
    /\ UNCHANGED <<jvars, tvars, pvars, dvars, rvars>>

\* The Invoices page after its first render: the mount effect has called
\* load().
InitInvoices ==
    /\ imounted = TRUE
    /\ iq = ""
    /\ iinvoices = {}
    /\ iloading = TRUE
    /\ ireqs = <<[q |-> "", latest |-> TRUE]>>
    /\ ilatest = NoItems
    /\ rinput = NoInput
    /\ rendered = NotRendered
    /\ lastInvoiceId = 0
    /\ loadingSubmit = FALSE
    /\ submitReq = FALSE
    /\ lastSubmit = NoSubmit
    /\ prevShown = FALSE
    /\ jmounted = FALSE
    /\ invoiceId = 0
    /\ steps = <<>>
    /\ status = NULL
    /\ connected = FALSE
    /\ esRef = 0
    /\ es = <<>>
    /\ hist = <<>>
    /\ lateCb = NoCb
    /\ pending = {}
    /\ task = [k \in TaskIds |-> [status |-> "pending", invStatus |-> NULL]]
    /\ rowMounted = [k \in TaskIds |-> FALSE]
    /\ submitting = [k \in TaskIds |-> FALSE]
    /\ invoiceStatus = [k \in TaskIds |-> NULL]
    /\ tes = [k \in TaskIds |-> CLOSED]
    /\ reqs = [k \in TaskIds |-> <<>>]
    /\ viaHttp = [k \in TaskIds |-> FALSE]
    /\ viaSse = [k \in TaskIds |-> FALSE]
    /\ nRemoved = [k \in TaskIds |-> 0]
    /\ lastResp = NoResp
    /\ lastIgnored = FALSE
    /\ pmounted = FALSE
    /\ ptasks = {}
    /\ ploading = FALSE
    /\ actioning = 0
    /\ ploads = 0
    /\ pacts = <<>>
    /\ palert = NULL
    /\ pconfirm = NULL
    /\ dmounted = FALSE
    /\ did = 0
    /\ dinvoice = NoDoc
    /\ dloading = FALSE
    /\ dactioning = FALSE
    /\ dmsg = NULL
    /\ dloads = <<>>
    /\ dacts = <<>>
    /\ dlast = NoResp
    /\ dconfirm = NULL

INext ==
    \/ \E v \in Queries : ISetQ(v)
    \/ IOnSearch
    \/ IClear
    \/ \E i \in 1..MaxLoads, ok \in BOOLEAN, items \in InvoicesResponses :
           ILoadDone(i, ok, items)

\* The Invoices page alone.
SpecInvoices == InitInvoices /\ [][INext]_vars

(***************************************************************************)
(* InvoiceJourney: what a render shows for the current status and for one  *)
(* step.  STATUS_EMOJI is an object literal, so STATUS_EMOJI[t] reads the  *)
(* property t of the object: one of its own keys, or else a property       *)
(* inherited from Object.prototype, or else undefined.                     *)
(***************************************************************************)
STATUS_EMOJI ==
    [RECEIVED |-> "inbox", VALIDATED |-> "check", MATCHED |-> "link",
     EXCEPTION |-> "cross", needs_human |-> "people",
     APPROVAL_PENDING |-> "hourglass", APPROVED |-> "party",
     REJECTED |-> "sad", POSTED |-> "rocket", UNKNOWN |-> "bell"]

\* The methods every object inherits from Object.prototype.
PrototypeMethods ==
    {"constructor", "toString", "toLocaleString", "valueOf", "hasOwnProperty",
     "isPrototypeOf", "propertyIsEnumerable"}

\* a value is truthy: not null / undefined and not the empty string
Truthy(v) == v # NULL /\ v # ""

\* STATUS_EMOJI[t]
EmojiLookup(t) ==
    IF t \in DOMAIN STATUS_EMOJI THEN [type |-> "string", value |-> STATUS_EMOJI[t]]
    ELSE IF t = "__proto__" THEN [type |-> "object", value |-> "Object.prototype"]
    ELSE IF t \in PrototypeMethods THEN [type |-> "function", value |-> t]
    ELSE [type |-> "undefined", value |-> NULL]

\* STATUS_EMOJI[t] || STATUS_EMOJI.UNKNOWN  (objects and functions are truthy)
EmojiOrUnknown(t) ==
    IF EmojiLookup(t).type = "undefined"
    THEN [type |-> "string", value |-> STATUS_EMOJI.UNKNOWN]
    ELSE EmojiLookup(t)

\* renderStep: s.status || (s.type === "status_change" && s.to)
\*             || s.result?.status || "UNKNOWN"
RenderStepStatus(s) ==
    IF Truthy(s.status) THEN s.status
    ELSE IF s.type = "status_change" /\ Truthy(s.to) THEN s.to
    ELSE IF Truthy(s.rstatus) THEN s.rstatus
    ELSE "UNKNOWN"

\* React renders {text} and {emoji} as children: a string is shown, a
\* function is not a valid child and shows nothing, a plain object makes
\* the render throw ("Objects are not valid as a React child").
Shown(text, emoji) ==
    IF emoji.type = "object"
    THEN [done |-> TRUE, error |-> TRUE, text |-> NULL, marker |-> NULL]
    ELSE [done |-> TRUE, error |-> FALSE, text |-> text,
          marker |-> IF emoji.type = "string" THEN emoji.value ELSE NULL]

\* {status || "N/A"} <span>{STATUS_EMOJI[status] || STATUS_EMOJI.UNKNOWN}</span>
StatusLine(st) == Shown(CurrentStatusText(st), EmojiOrUnknown(st))

\* renderStep(s, idx): {emoji} and the label followed by {t}
RenderStep(s) == Shown(RenderStepStatus(s), EmojiOrUnknown(RenderStepStatus(s)))

\* The status strings a server may report: known ones, unknown ones, and
\* names that Object.prototype defines.
StatusStrings ==
    {"RECEIVED", "APPROVAL_PENDING", "POSTED", "UNKNOWN", "ON_HOLD", "deleted",
     "__proto__", "constructor", "toString"}

\* The steps a server may send.
RenderSteps ==
    {MkStep(type, to, st, rst, "validator") :
        type \in {"status_change", "agent_result"},
        to \in {NULL, "VALIDATED", "ON_HOLD"},
        st \in {NULL, "APPROVED", "ESCALATED", "__proto__", "constructor"},
        rst \in {NULL, "MATCHED", "PARKED"}}

RenderInputs ==
    {[kind |-> "status", status |-> st, step |-> NoInput.step] :
        st \in StatusStrings \cup {NULL}}
    \cup {[kind |-> "step", status |-> NULL, step |-> s] : s \in RenderSteps}

\* The render of the current-status line.
RStatusLine ==
    /\ rinput.kind = "status" /\ ~rendered.done
    /\ rendered' = StatusLine(rinput.status)
    /\ UNCHANGED rinput
    /\ UNCHANGED <<jvars, tvars, pvars, dvars, ivars>>

\* The render of one entry of steps.
RRenderStep ==
    /\ rinput.kind = "step" /\ ~rendered.done
    /\ rendered' = RenderStep(rinput.step)
    /\ UNCHANGED rinput
    /\ UNCHANGED <<jvars, tvars, pvars, dvars, ivars>>

\* InvoiceJourney about to render a status or a step.
InitRender ==
    /\ rinput \in RenderInputs
    /\ rendered = NotRendered
    /\ imounted = FALSE
    /\ iq = ""
    /\ iinvoices = {}
    /\ iloading = FALSE
    /\ ireqs = <<>>
    /\ ilatest = NoItems
    /\ lastInvoiceId = 0
    /\ loadingSubmit = FALSE
    /\ submitReq = FALSE
    /\ lastSubmit = NoSubmit
    /\ prevShown = FALSE
    /\ jmounted = FALSE
    /\ invoiceId = 0
    /\ steps = <<>>
    /\ status = NULL
    /\ connected = FALSE
    /\ esRef = 0
    /\ es = <<>>
    /\ hist = <<>>
    /\ lateCb = NoCb
    /\ pending = {}
    /\ task = [k \in TaskIds |-> [status |-> "pending", invStatus |-> NULL]]
    /\ rowMounted = [k \in TaskIds |-> FALSE]
    /\ submitting = [k \in TaskIds |-> FALSE]
    /\ invoiceStatus = [k \in TaskIds |-> NULL]
    /\ tes = [k \in TaskIds |-> CLOSED]
    /\ reqs = [k \in TaskIds |-> <<>>]
    /\ viaHttp = [k \in TaskIds |-> FALSE]
    /\ viaSse = [k \in TaskIds |-> FALSE]
    /\ nRemoved = [k \in TaskIds |-> 0]
    /\ lastResp = NoResp
    /\ lastIgnored = FALSE
    /\ pmounted = FALSE
    /\ ptasks = {}
    /\ ploading = FALSE
    /\ actioning = 0
    /\ ploads = 0
    /\ pacts = <<>>
    /\ palert = NULL
    /\ pconfirm = NULL
    /\ dmounted = FALSE
    /\ did = 0
    /\ dinvoice = NoDoc
    /\ dloading = FALSE
    /\ dactioning = FALSE
    /\ dmsg = NULL
    /\ dloads = <<>>
    /\ dacts = <<>>
    /\ dlast = NoResp
    /\ dconfirm = NULL

RNext == RStatusLine \/ RRenderStep

\* The renders of InvoiceJourney alone.
SpecRender == InitRender /\ [][RNext]_vars

(***************************************************************************)
(* Helpers of the properties.                                              *)
(***************************************************************************)
Last(s) == s[Len(s)]

NoDup(s) == \A i, j \in 1..Len(s) : i # j => s[i] # s[j]

\* The steps carried by the well-formed step events of a history, in order.
RECURSIVE StepPayloads(_)
StepPayloads(h) ==
    IF Len(h) = 0 THEN <<>>
    ELSE LET e == h[Len(h)]
             front == StepPayloads(SubSeq(h, 1, Len(h) - 1))
         IN  IF e.kind = "step" /\ e.ok THEN front \o e.payload ELSE front

\* The history is an open followed by well-formed step events only, all of
\* one EventSource.
OnlyStepsOnOneConnection ==
    /\ \A i \in 1..Len(hist) :
          \/ hist[i].kind = "open"
          \/ hist[i].kind = "step" /\ hist[i].ok
    /\ \A i, j \in 1..Len(hist) : hist[i].conn = hist[j].conn

\* renderStep: s.status || (s.type === "status_change" && s.to) || s.result?.status
StatusHint(s) ==
    IF s.status # NULL THEN s.status
    ELSE IF s.type = "status_change" /\ s.to # NULL THEN s.to
    ELSE s.rstatus

\* The status hint of the last step that carries one, NULL when none does.
RECURSIVE LastHint(_)
LastHint(s) ==
    IF Len(s) = 0 THEN NULL
    ELSE IF StatusHint(s[Len(s)]) # NULL THEN StatusHint(s[Len(s)])
    ELSE LastHint(SubSeq(s, 1, Len(s) - 1))

HasDeleted(h) == \E i \in 1..Len(h) : h[i].kind = "deleted"

\* This step handled one more stream callback of a live EventSource.
Handled == Len(hist') = Len(hist) + 1

(***************************************************************************)
(* C1: step events without duplicates, delivered on one connection, are    *)
(* all kept, in arrival order: steps equals the sequence delivered.        *)
(***************************************************************************)
C1_StepsReplayInOrder ==
    (jmounted /\ OnlyStepsOnOneConnection /\ NoDup(StepPayloads(hist)))
        => steps = StepPayloads(hist)

C1_Witness ==
    /\ jmounted /\ OnlyStepsOnOneConnection /\ NoDup(StepPayloads(hist))
    /\ Len(StepPayloads(hist)) >= 3
    /\ steps = StepPayloads(hist)

(***************************************************************************)
(* C2: the same step payload delivered twice in immediate succession       *)
(* leaves one entry in steps: the second delivery is dropped.              *)
(***************************************************************************)
SameStepTwice ==
    /\ Len(hist) >= 2
    /\ Last(hist).kind = "step" /\ Last(hist).ok
    /\ hist[Len(hist) - 1] = Last(hist)

C2_DuplicateStepDropped ==
    (jmounted /\ SameStepTwice)
        => ~(Len(steps) >= 2 /\ steps[Len(steps) - 1] = Last(steps)
             /\ Last(steps) = Last(hist).payload[1])

(***************************************************************************)
(* C3: a well-formed init event replaces steps by the sequence received,   *)
(* whatever steps held before; so the same init applied twice gives what   *)
(* it gives applied once.                                                  *)
(***************************************************************************)
C3_HydrateReplaces ==
    (jmounted /\ Len(hist) > 0 /\ Last(hist).kind = "init" /\ Last(hist).ok)
        => steps = Last(hist).payload

C3_Witness ==
    /\ jmounted /\ Len(hist) >= 4
    /\ hist[Len(hist) - 2].kind = "step" /\ hist[Len(hist) - 2].ok
    /\ hist[Len(hist) - 1].kind = "init" /\ hist[Len(hist) - 1].ok
    /\ Last(hist) = hist[Len(hist) - 1]
    /\ Len(Last(hist).payload) = 2
    /\ steps = Last(hist).payload

(***************************************************************************)
(* C4: once a deleted event has been applied, a later step event leaves    *)
(* steps as it is.                                                         *)
(***************************************************************************)
C4_FrozenAfterDeleted ==
    [][(jmounted /\ HasDeleted(hist) /\ Handled /\ Last(hist').kind = "step")
           => steps' = steps]_vars

(***************************************************************************)
(* C5: the displayed current status is the status hint of the last step    *)
(* of steps that carries one, and "N/A" when no step carries one.          *)
(***************************************************************************)
C5_StatusIsLastHint ==
    jmounted => CurrentStatusText(status) = CurrentStatusText(LastHint(steps))

(***************************************************************************)
(* C9: a view has at most one EventSource that is not closed, and it is    *)
(* the one of esRef, opened for the current invoice id; an unmounted view  *)
(* has none.                                                               *)
(***************************************************************************)
LiveConns == {c \in Conns : es[c].readyState # CLOSED}

C9_OneConnection ==
    /\ Cardinality(LiveConns) <= 1
    /\ \A c \in LiveConns : jmounted /\ c = esRef /\ es[c].inv = invoiceId

C9_Witness ==
    /\ jmounted /\ Len(es) = 2
    /\ es[1].readyState = CLOSED /\ es[2].readyState = OPEN
    /\ es[1].inv # es[2].inv /\ esRef = 2

(***************************************************************************)
(* C10: a callback of a closed EventSource changes nothing of the view,    *)
(* and every callback that is handled belongs to the EventSource of        *)
(* esRef, which is not closed: no superseded channel reaches the state.    *)
(***************************************************************************)
C10_LateCallbackIgnored ==
    [][/\ (lateCb' # NoCb /\ lateCb' # lateCb)
            => UNCHANGED <<steps, status, connected>>
       /\ (jmounted /\ jmounted' /\ Handled)
            => (Last(hist').conn = esRef /\ es[esRef].readyState # CLOSED)]_vars

C10_Witness ==
    /\ jmounted /\ esRef # 0 /\ es[esRef].readyState = OPEN
    /\ lateCb # NoCb /\ lateCb # esRef
    /\ Len(steps) > 0 /\ connected

(***************************************************************************)
(* C6: at most one action request per task is in flight, and while it is,  *)
(* the buttons for the task are disabled: the row's submitting flag is     *)
(* set (TaskRow), actioning holds a task id (Tasks page).                  *)
(***************************************************************************)
\* The handleApprove / handleReject calls whose action request for task k
\* is in flight.
PPosting(k) == {i \in 1..Len(pacts) : pacts[i].task = k /\ pacts[i].phase = "posting"}

C6_OneRequestPerTask ==
    /\ \A k \in TaskIds :
          /\ Len(reqs[k]) <= 1
          /\ (Len(reqs[k]) = 1 /\ rowMounted[k]) => submitting[k]
    /\ \A k \in PageTaskIds :
          /\ Cardinality(PPosting(k)) <= 1
          /\ PPosting(k) # {} => actioning = k

C6_Witness ==
    /\ \A k \in TaskIds : Len(reqs[k]) = 1 /\ rowMounted[k] /\ submitting[k]
    /\ reqs[1][1].action = "approve" /\ reqs[2][1].action = "reject"

(***************************************************************************)
(* C7: after a failed action request has been handled, the status shown    *)
(* (the row's invoice status; the invoice of the detail page) is the one   *)
(* shown when the action was submitted.                                    *)
(***************************************************************************)
FailureHandled == lastResp.task # 0 /\ ~lastResp.ok /\ rowMounted[lastResp.task]

DFailureHandled == dlast.task # 0 /\ ~dlast.ok

C7_StatusRestoredAfterFailure ==
    /\ FailureHandled => invoiceStatus[lastResp.task] = lastResp.before
    /\ DFailureHandled => dinvoice.status = dlast.before

\* C7 as amended: handling the failure leaves the status as it is; it is
\* the status of the submission unless, while the request was in flight,
\* an invoice:update of the row's invoice was applied (TaskRow) or a
\* getInvoice response replaced the invoice (detail page).
C7_FailureKeepsStatus ==
    [][/\ (lastResp'.task # 0 /\ ~lastResp'.ok /\ lastResp' # lastResp)
            => /\ invoiceStatus'[lastResp'.task] = invoiceStatus[lastResp'.task]
               /\ (rowMounted[lastResp'.task] /\ ~lastResp'.touched)
                     => invoiceStatus'[lastResp'.task] = lastResp'.before
       /\ (dlast'.task # 0 /\ ~dlast'.ok /\ dlast' # dlast)
            => /\ dinvoice' = dinvoice
               /\ ~dlast'.touched => dinvoice'.status = dlast'.before]_vars

C7_Witness ==
    /\ FailureHandled /\ ~lastResp.touched
    /\ lastResp.before = "APPROVAL_PENDING"
    /\ invoiceStatus[lastResp.task] = "APPROVAL_PENDING"
    /\ invoiceStatus[3 - lastResp.task] = "REJECTED"

(***************************************************************************)
(* C8: a task leaves the pending list once, whether the 2xx response, a    *)
(* task:update "completed" message or both (in either order) remove it;    *)
(* after either of them the task is not in the list.                       *)
(***************************************************************************)
C8_RemovedOnce ==
    \A k \in TaskIds :
        /\ nRemoved[k] <= 1
        /\ (viaHttp[k] \/ viaSse[k]) => (k \notin pending /\ nRemoved[k] = 1)
        /\ (lastResp.task = k /\ lastResp.ok) => (viaHttp[k] /\ k \notin pending)

\* Both paths removed task 1: the message first, then the response, and
\* task 2 is still listed.
C8_Witness ==
    /\ viaHttp[1] /\ viaSse[1] /\ nRemoved[1] = 1
    /\ lastResp.task = 1 /\ lastResp.ok
    /\ pending = {2}
(***************************************************************************)
(* C11: the view holds nothing received for a previous invoice id: its     *)
(* steps and status are exactly what the listeners make of the callbacks   *)
(* of the EventSource opened for the current invoice id, starting from     *)
(* the empty view.                                                         *)
(***************************************************************************)
\* The callbacks of h that belong to EventSource c.
EventsOf(h, c) == SelectSeq(h, LAMBDA e : e.conn = c)

\* steps and status after the callbacks of h, starting from the empty view.
RECURSIVE ViewAfter(_)
ViewAfter(h) ==
    IF Len(h) = 0 THEN [steps |-> <<>>, status |-> NULL]
    ELSE LET e == h[Len(h)]
             v == ViewAfter(SubSeq(h, 1, Len(h) - 1))
         IN  IF e.kind = "init" /\ e.ok
             THEN [steps |-> e.payload,
                   status |-> IF Len(e.payload) = 0 THEN NULL
                              ELSE IF Last(e.payload).status # NULL
                                   THEN Last(e.payload).status
                              ELSE Last(e.payload).to]
             ELSE IF e.kind = "step" /\ e.ok
             THEN [steps |-> Append(v.steps, e.payload[1]),
                   status |-> StepStatus(e.payload[1])]
             ELSE IF e.kind = "deleted"
             THEN [steps |-> Append(v.steps, DeletedStep), status |-> v.status]
             ELSE v

C11_NoStateAcrossIds ==
    jmounted =>
        /\ esRef # 0 /\ es[esRef].inv = invoiceId
        /\ steps = ViewAfter(EventsOf(hist, esRef)).steps
        /\ status = ViewAfter(EventsOf(hist, esRef)).status

\* A view that held steps was destroyed; the view of another invoice id
\* has received one step and holds that step only.
C11_Witness ==
    /\ jmounted /\ prevShown
    /\ Len(es) = 2 /\ es[1].inv # invoiceId /\ esRef = 2
    /\ Len(hist) > 0 /\ Last(hist).kind = "step" /\ Last(hist).ok
    /\ steps = Last(hist).payload
(***************************************************************************)
(* C12: after a reconnection (error, open, then a fresh init) followed by  *)
(* step events only, steps is the payload of that init followed by the     *)
(* steps received since, in arrival order: nothing received before the     *)
(* reconnection is left.                                                   *)
(***************************************************************************)
\* hist[i] is the init of a reconnection and only steps followed it.
ReconnectedAt(i) ==
    /\ i >= 3 /\ i <= Len(hist)
    /\ hist[i - 2].kind = "error" /\ hist[i - 1].kind = "open"
    /\ hist[i].kind = "init" /\ hist[i].ok
    /\ \A j \in (i + 1)..Len(hist) : hist[j].kind = "step" /\ hist[j].ok

C12_ReconnectReplaces ==
    \A i \in 1..Len(hist) :
        (jmounted /\ ReconnectedAt(i))
            => steps = hist[i].payload \o StepPayloads(SubSeq(hist, i + 1, Len(hist)))

\* A step before the error, then error, open, init and one more step.
C12_Witness ==
    /\ jmounted /\ Len(hist) = 6 /\ ReconnectedAt(5)
    /\ hist[2].kind = "step" /\ hist[2].ok
    /\ steps = Scenario \o hist[6].payload
(***************************************************************************)
(* C13: while an action of a row is in flight the row shows the            *)
(* optimistic status of that action as an overlay, until an authoritative  *)
(* update of the row's invoice arrives; from then on it shows the          *)
(* authoritative status.                                                   *)
(***************************************************************************)
\* The status a row holds: useState invoiceStatus is its only status.
ShownStatus(k) == invoiceStatus[k]

\* The status an action is expected to lead to.
OptimisticStatus(action) == IF action = "approve" THEN "APPROVED" ELSE "REJECTED"

C13_OverlayUntilAuthoritative ==
    \A k \in TaskIds :
        (rowMounted[k] /\ Len(reqs[k]) > 0 /\ ~reqs[k][1].touched)
            => ShownStatus(k) = OptimisticStatus(reqs[k][1].action)
(***************************************************************************)
(* C14: an action request the server never answers is given up by the      *)
(* client and handled as a failure: a submitting / actioning flag that is  *)
(* set is cleared again.                                                   *)
(***************************************************************************)
\* The Tasks page part: the axios client times out.
TasksPageFlagCleared == (actioning # 0) ~> (actioning = 0)

C14_FlagEventuallyCleared ==
    /\ \A k \in TaskIds : (rowMounted[k] /\ submitting[k]) ~> ~submitting[k]
    /\ TasksPageFlagCleared
(***************************************************************************)
(* C15: handling a failed action request clears the submitting /           *)
(* actioning flag and shows an error message to the user.                  *)
(***************************************************************************)
\* The error message a row shows: the catch of handleAction only calls
\* console.error and the row renders no message.
RowError(k) == NULL

C15_FailureSurfaced ==
    [][/\ (lastResp'.task # 0 /\ ~lastResp'.ok /\ lastResp' # lastResp)
            => /\ ~submitting'[lastResp'.task]
               /\ RowError(lastResp'.task) # NULL
       /\ \A i \in 1..Len(pacts) :
            (pacts[i].phase = "posting" /\ Len(pacts') < Len(pacts))
                => (actioning' = 0 /\ palert' = FailedText(pacts[i].kind))]_vars
(***************************************************************************)
(* C16: an init or step event whose data is not valid JSON, or a step      *)
(* event without a step field, changes nothing: steps, status, connected   *)
(* and the EventSource are as before, and a well-formed step that follows  *)
(* it is appended.                                                         *)
(***************************************************************************)
Malformed(e) == e.kind \in {"init", "step"} /\ ~e.ok

C16_MalformedDropped ==
    [][/\ (jmounted /\ Handled /\ Malformed(Last(hist')))
            => UNCHANGED <<steps, status, connected, es, esRef>>
       /\ (jmounted /\ Handled /\ Len(hist) > 0 /\ Malformed(Last(hist))
             /\ Last(hist').kind = "step" /\ Last(hist').ok)
            => steps' = Append(steps, Last(hist').payload[1])]_vars

\* A malformed init, a step event without step field, then a well-formed
\* step: the view holds that step only and is still connected.
C16_Witness ==
    /\ jmounted /\ Len(hist) = 4
    /\ hist[2].kind = "init" /\ ~hist[2].ok
    /\ hist[3].kind = "step" /\ ~hist[3].ok
    /\ hist[4].kind = "step" /\ hist[4].ok
    /\ steps = hist[4].payload /\ connected /\ es[esRef].readyState = OPEN
(***************************************************************************)
(* C17: connected is set by every open, cleared by every error and         *)
(* cleared when the view's EventSource is closed or replaced (unmount, new *)
(* invoice id); whenever it is set, the view is mounted and the            *)
(* EventSource of esRef is open.                                           *)
(***************************************************************************)
C17_ConnectedIsLiveness ==
    [][/\ (jmounted /\ Handled /\ Last(hist').kind = "open") => connected'
       /\ (jmounted /\ Handled /\ Last(hist').kind = "error") => ~connected'
       /\ (jmounted /\ ~jmounted') => ~connected'
       /\ (esRef' # esRef) => ~connected'
       /\ connected' => (jmounted' /\ esRef' # 0 /\ es'[esRef'].readyState = OPEN)]_vars

\* The view of a second invoice id went live, lost the transport and is
\* live again.
C17_Witness ==
    /\ jmounted /\ Len(es) = 2 /\ esRef = 2 /\ es[1].readyState = CLOSED
    /\ Len(hist) = 3
    /\ hist[1].kind = "open" /\ hist[2].kind = "error" /\ hist[3].kind = "open"
    /\ connected /\ es[esRef].readyState = OPEN
(***************************************************************************)
(* C18: a step or deleted event only appends: the steps held before are a  *)
(* prefix of the steps held after, and a deleted event appends exactly one *)
(* step, of status "deleted".                                              *)
(***************************************************************************)
IsPrefix(s, t) == Len(s) <= Len(t) /\ SubSeq(t, 1, Len(s)) = s

C18_AppendOnly ==
    [][(jmounted /\ Handled /\ Last(hist').kind \in {"step", "deleted"})
           => /\ IsPrefix(steps, steps')
              /\ Last(hist').kind = "deleted"
                    => /\ Len(steps') = Len(steps) + 1
                       /\ Last(steps').status = "deleted"]_vars

\* Two steps, then deleted: the two steps are kept and the synthetic step
\* follows them.
C18_Witness ==
    /\ jmounted /\ Len(hist) = 4
    /\ hist[2].kind = "step" /\ hist[2].ok /\ hist[3].kind = "step" /\ hist[3].ok
    /\ hist[4].kind = "deleted"
    /\ steps = hist[2].payload \o hist[3].payload \o <<DeletedStep>>
(***************************************************************************)
(* C19: a step event whose step has no to, no status and no result.status  *)
(* is appended and leaves the status as it is.                             *)
(***************************************************************************)
HasNoHint(s) == s.to = NULL /\ s.status = NULL /\ s.rstatus = NULL

C19_NoHintKeepsStatus ==
    [][(jmounted /\ Handled /\ Last(hist').kind = "step" /\ Last(hist').ok
          /\ HasNoHint(Last(hist').payload[1]))
           => /\ steps' = Append(steps, Last(hist').payload[1])
              /\ status' = status]_vars
(***************************************************************************)
(* C20: after RECEIVED, VALIDATED, an agent_result without status hint and *)
(* APPROVAL_PENDING, received as four step events or as the payload of one *)
(* init event, the status is "APPROVAL_PENDING" and steps has 4 entries.   *)
(***************************************************************************)
C20_ScenarioReplay ==
    jmounted =>
        /\ (OnlyStepsOnOneConnection /\ StepPayloads(hist) = Scenario)
              => (status = "APPROVAL_PENDING" /\ Len(steps) = 4)
        /\ (Len(hist) > 0 /\ Last(hist).kind = "init" /\ Last(hist).ok
              /\ Last(hist).payload = Scenario)
              => (status = "APPROVAL_PENDING" /\ Len(steps) = 4)

\* The four steps arrived as step events after the open.
C20_Witness ==
    /\ jmounted /\ Len(hist) = 5 /\ OnlyStepsOnOneConnection
    /\ StepPayloads(hist) = Scenario
    /\ steps = Scenario /\ CurrentStatusText(status) = "APPROVAL_PENDING"
(***************************************************************************)
(* C21: a transport error is not fatal to the view: handling it clears     *)
(* connected and leaves steps, status, the mounted view and its            *)
(* EventSource reference as they are; a well-formed step received after    *)
(* the transport has reconnected (error, then open) is applied.            *)
(***************************************************************************)
\* The last two callbacks handled are an error and the open that follows it.
Reconnected ==
    /\ Len(hist) >= 2
    /\ hist[Len(hist) - 1].kind = "error" /\ Last(hist).kind = "open"

C21_ErrorNotFatal ==
    [][/\ (jmounted /\ Handled /\ Last(hist').kind = "error")
            => /\ ~connected'
               /\ UNCHANGED <<steps, status, jmounted, invoiceId, esRef>>
       /\ (jmounted /\ Handled /\ Reconnected
             /\ Last(hist').kind = "step" /\ Last(hist').ok)
            => /\ steps' = Append(steps, Last(hist').payload[1])
               /\ status' = StepStatus(Last(hist').payload[1])]_vars

\* A step, the error, the reconnection and a second step: both steps are
\* held and the view is live.
C21_Witness ==
    /\ jmounted /\ Len(hist) = 5
    /\ hist[1].kind = "open" /\ hist[2].kind = "step" /\ hist[3].kind = "error"
    /\ hist[4].kind = "open" /\ hist[5].kind = "step"
    /\ steps = hist[2].payload \o hist[5].payload
    /\ status = StepStatus(hist[5].payload[1]) /\ connected
(***************************************************************************)
(* C22: approve and reject ask for confirmation.  When the user declines,  *)
(* no request is sent and nothing changes: on the Tasks page the requests  *)
(* in flight, actioning, the task list, loading and the alert; on the      *)
(* invoice detail page the requests in flight, actioning, the invoice and  *)
(* the message.                                                            *)
(***************************************************************************)
C22_DeclineChangesNothing ==
    [][/\ (pconfirm' = "declined" /\ pconfirm' # pconfirm)
            => UNCHANGED <<pacts, actioning, ptasks, ploading, ploads, palert>>
       /\ (dconfirm' = "declined" /\ dconfirm' # dconfirm)
            => UNCHANGED <<dacts, dactioning, dinvoice, dmsg, dloading, dloads>>]_vars

\* The Tasks page after an action that failed: the user clicks again and
\* declines; no request is in flight and the alert is the one of before.
C22_Witness ==
    /\ pmounted /\ pconfirm = "declined"
    /\ palert = "Approve failed" /\ ptasks # {}
    /\ actioning = 0 /\ pacts = <<>>
(***************************************************************************)
(* C24: on the Tasks page at most one handleApprove / handleReject call is *)
(* in flight at any time, whatever the tasks; while one is, actioning      *)
(* holds the id of its task, which disables the buttons of every approval  *)
(* task; when the call completes, after a failure or after the reload      *)
(* that follows a success, actioning is null again.                        *)
(***************************************************************************)
C24_OneRequestOnPage ==
    /\ [](/\ Len(pacts) <= 1
          /\ \A i \in 1..Len(pacts) : actioning # 0 /\ actioning = pacts[i].task)
    /\ [][Len(pacts') < Len(pacts) => actioning' = 0]_vars

\* An action succeeded and the list was loaded again; now a second action
\* is in flight while both approval tasks are listed.
C24_Witness ==
    /\ pmounted /\ ~ploading /\ ApprovalTasks \subseteq ptasks
    /\ palert = "Rejected"
    /\ Len(pacts) = 1 /\ pacts[1].phase = "posting"
    /\ actioning = pacts[1].task
(***************************************************************************)
(* C25: on the invoice detail page "Approve failed" / "Reject failed" is   *)
(* shown only if the action request failed: when doApprove / doReject has  *)
(* completed after an action request that succeeded, the message is not    *)
(* one of the two, whatever the refresh did.                               *)
(***************************************************************************)
C25_FailedOnlyIfActionFailed ==
    (dlast.task # 0 /\ dlast.ok) => dmsg \notin {FailedText(kind) : kind \in Kinds}
(***************************************************************************)
(* C26: on the invoice detail page, whenever loading is false and an       *)
(* invoice is shown, the invoice was fetched for the current route id: no  *)
(* response of the load effect or of the refresh of doApprove / doReject   *)
(* for a previous id is left in the state.                                 *)
(***************************************************************************)
C26_ShownInvoiceIsCurrent ==
    (dmounted /\ ~dloading /\ dinvoice # NoDoc) => dinvoice.id = did
(***************************************************************************)
(* C29: while the status a row holds is terminal (READY_FOR_POSTING,       *)
(* REJECTED, POSTED, CANCELLED), as reported by the last invoice:update of *)
(* the row's invoice, the Approve and Reject buttons of the row are        *)
(* disabled and no step sends an action request from the row.              *)
(***************************************************************************)
ReportedTerminal(k) ==
    invoiceStatus[k] \in {"READY_FOR_POSTING", "REJECTED", "POSTED", "CANCELLED"}

C29_TerminalDisables ==
    [][\A k \in TaskIds :
          (rowMounted[k] /\ ReportedTerminal(k))
              => (Disabled(k) /\ Len(reqs'[k]) <= Len(reqs[k]))]_vars

\* A pending task whose invoice was not terminal at mount: an
\* invoice:update has reported REJECTED, nothing is in flight, and the
\* row is disabled by the status alone.
C29_Witness ==
    \E k \in TaskIds :
        /\ rowMounted[k] /\ k \in pending
        /\ task[k].status = "pending" /\ task[k].invStatus = "APPROVAL_PENDING"
        /\ invoiceStatus[k] = "REJECTED"
        /\ ~submitting[k] /\ reqs[k] = <<>>
        /\ Disabled(k)
(***************************************************************************)
(* C28: the journey is shown only for the invoice id returned by the most  *)
(* recent submission, which succeeded.  While a submission is in flight    *)
(* lastInvoiceId is null, no journey is shown and every EventSource is     *)
(* closed; after a failed submission or invalid JSON no journey is shown;  *)
(* loadingSubmit is set exactly while the request is in flight.            *)
(***************************************************************************)
C28_JourneyOfLastSubmission ==
    /\ jmounted => /\ lastSubmit.outcome = "ok"
                   /\ lastSubmit.id # 0
                   /\ invoiceId = lastSubmit.id /\ lastInvoiceId = lastSubmit.id
    /\ lastSubmit.outcome = "sending"
          => /\ lastInvoiceId = 0 /\ ~jmounted
             /\ \A c \in Conns : es[c].readyState = CLOSED
    /\ lastSubmit.outcome \in {"failed", "invalid_json"}
          => (lastInvoiceId = 0 /\ ~jmounted)
    /\ loadingSubmit = (lastSubmit.outcome = "sending")
    /\ submitReq = loadingSubmit

\* The journey of a first submission held steps; a second submission
\* closed it and returned another id, whose journey is shown and live.
C28_Witness ==
    /\ jmounted /\ prevShown /\ ~loadingSubmit
    /\ lastSubmit.outcome = "ok" /\ invoiceId = lastSubmit.id
    /\ Len(es) = 2 /\ es[1].inv # invoiceId /\ es[1].readyState = CLOSED
    /\ esRef = 2 /\ connected
(***************************************************************************)
(* C30: a message that is malformed, an invoice:update of another invoice, *)
(* a task:update of another task or a task:update whose status is not      *)
(* "completed" changes neither invoiceStatus nor the pending-task list.    *)
(***************************************************************************)
C30_ForeignMessageIgnored ==
    [][lastIgnored' => UNCHANGED <<invoiceStatus, pending, nRemoved, viaSse>>]_vars

\* Row 1 holds REJECTED from an update of its own invoice and has since
\* handled a message that is not for it; both tasks are still listed.
C30_Witness ==
    /\ lastIgnored /\ pending = TaskIds
    /\ rowMounted[1] /\ tes[1] = OPEN
    /\ task[1].invStatus = NULL /\ invoiceStatus[1] = "REJECTED"
    /\ invoiceStatus[2] = task[2].invStatus
(***************************************************************************)
(* C27: on the Invoices page, once no getInvoices request is outstanding,  *)
(* the list shown is the response to the most recent load or search        *)
(* (empty if that request failed), in whatever order the responses         *)
(* arrived, and loading is false.                                          *)
(***************************************************************************)
C27_LatestRequestWins ==
    (imounted /\ ireqs = <<>>)
        => (ilatest.done /\ iinvoices = ilatest.items /\ ~iloading)
(***************************************************************************)
(* C23: a status string outside the known set is shown verbatim with the   *)
(* generic marker and without error, on the current-status line and in     *)
(* each step.                                                              *)
(***************************************************************************)
KnownStatuses ==
    {"RECEIVED", "VALIDATED", "MATCHED", "EXCEPTION", "needs_human",
     "APPROVAL_PENDING", "APPROVED", "REJECTED", "POSTED"}

\* The status string the render is about.
RenderedStatus ==
    IF rinput.kind = "status" THEN rinput.status ELSE RenderStepStatus(rinput.step)

C23_UnknownStatusGeneric ==
    (rendered.done /\ RenderedStatus # NULL /\ RenderedStatus \notin KnownStatuses)
        => /\ ~rendered.error
           /\ rendered.text = RenderedStatus
           /\ rendered.marker = STATUS_EMOJI.UNKNOWN
====
